---------------------------- MODULE Spec2Model ----------------------------
(***************************************************************************)
(* Model of the real-time marketplace server (src/main.go): the in-memory  *)
(* Store of stocks guarded by a sync.RWMutex, the CRUD handler handleStock *)
(* that mutates it and hands a WebSocketMessage to the Hub over the        *)
(* unbuffered channel Hub.broadcast, the read-all handler handleGetStocks, *)
(* the broadcast loop Hub.run, and the per-connection handler              *)
(* Hub.handleWebSocket.                                                    *)
(*                                                                         *)
(* Every goroutine is a process with a program counter.  A step that only  *)
(* touches the goroutine's own locals is merged into the next step that    *)
(* touches shared state (a lock, a map, the channel, a connection).        *)
(***************************************************************************)
EXTENDS Naturals, Sequences, FiniteSets, TLC

(* ------------------------------ bounds -------------------------------- *)

\* Total number of CRUD requests the clients issue in one behaviour.
MaxReqs == 2

\* Total number of CREATE requests issued in one behaviour of SpecHub.
MaxEvents == 3

\* Total number of CRUD requests issued in one behaviour of SpecRead.
MaxMuts == 3

\* Total number of read-all requests issued in one behaviour.
MaxReads == 1

(* --------------------------- process names ---------------------------- *)

\* Goroutines that run handleStock concurrently (one per in-flight request).
Reqs == {"r1", "r2"}

\* The request goroutines of SpecHub.
HubReqs == {"r1"}

\* WebSocket connections (each *websocket.Conn is created once, by Upgrade).
Conns == {"c1", "c2"}

\* The connections that are opened in SpecSync.
SyncConns == {"c1"}

\* The goroutine that runs Hub.run, as the holder of Hub.mu.
HubProc == "hub"

\* The goroutine that runs handleGetStocks, as a holder of Store.mu.RLock.
Getter == "g"

\* A mutex nobody holds.
Free == "none"

(* ------------------------------- data --------------------------------- *)

\* HTTP methods a client may use on /api/stock; "GET" stands for every
\* method the switch does not name.
Methods == {"POST", "PUT", "DELETE", "GET"}

\* The zero value of Stock, as declared by `var stock Stock`.
ZeroStock == [ID |-> "", Item |-> "", Price |-> 0]

\* (item, price) pairs a request body may carry.
Payloads == {<<"a", 1>>, <<"b", 2>>}

\* uuid.New().String(): the n-th identifier minted by the server.  The
\* library draws 122 random bits; it is modelled as a fresh value that no
\* earlier call returned and no client can have chosen.
Uuid(n) == "u" \o ToString(n)

\* A handler that labels every message as an update.
AlwaysUpdate(m) == "UPDATE"

\* The message type each case of the switch assigns to msgType.
MsgTypeOf(m) ==
    IF m = "POST" THEN "CREATE" ELSE IF m = "PUT" THEN "UPDATE" ELSE "DELETE"

\* No record (the result of a lookup of an absent key, kept for history).
NoStock == [ID |-> "", Item |-> "-", Price |-> 0]

\* Hub.run holds no message (it is blocked in the receive).
NoMsg == [type |-> "", payload |-> ZeroStock]

\* make(map[string]Stock): the empty map.
EmptyMap == [k \in {} |-> ZeroStock]

\* m[k] = v on a Go map: insert or overwrite the entry at key k.
MapSet(m, k, v) == [x \in (DOMAIN m) \cup {k} |-> IF x = k THEN v ELSE m[x]]

\* delete(m, k) on a Go map: remove the entry at key k; no-op if absent.
MapDelete(m, k) == [x \in (DOMAIN m) \ {k} |-> m[x]]

\* The values of a map, as a set.
Values(m) == {m[k] : k \in DOMAIN m}

VARIABLES
    \* Store
    stocks,      \* Store.stocks: map from key to Stock
    smuW,        \* Store.mu: the goroutine holding the write lock, or Free
    smuR,        \* Store.mu: the goroutines holding a read lock
    nextId,      \* number of the next identifier uuid.New() mints
    \* handleStock, per request goroutine
    pc,          \* position in handleStock
    method,      \* r.Method
    stock,       \* local variable stock
    msgType,     \* local variable msgType
    status,      \* HTTP status written to the response (0: none yet)
    resp,        \* Stock encoded into the response
    nreq,        \* number of requests started so far
    \* Hub
    clients,     \* Hub.clients: set of registered connections
    hmu,         \* Hub.mu: the goroutine holding it, or Free
    hpc,         \* position of Hub.run
    msg,         \* local variable msg of Hub.run
    todo,        \* entries the range loop of Hub.run has not yet produced
    cur,         \* the client whose WriteJSON is in progress
    \* handleWebSocket, per connection
    cpc,         \* position in handleWebSocket
    broken,      \* the peer is gone or the network failed
    closed,      \* conn.Close() was called by the server
    \* handleGetStocks
    gpc,         \* position in handleGetStocks
    gtodo,       \* keys the range loop has not yet produced
    stockList,   \* local variable stockList (the response once encoded)
    nread,       \* number of read-all requests started so far
    \* history (never read by the program)
    decoded,     \* whether the request body decoded into a Stock
    body,        \* the Stock decoded from the request body
    prior,       \* the record stored under stock.ID just before the mutation
    trace,       \* the steps the request has performed, in order
    sent,        \* the message the request handed to the Hub
    seen,        \* every key that has ever been stored
    published,   \* the messages received by Hub.run, in order
    received,    \* per connection, the messages written without error
    regAt,       \* per connection, Len(published) when it was registered
    regReq,      \* per connection, nreq when it was registered
    snap,        \* Hub.clients when Hub.run locked it for the current msg
    attempted,   \* connections WriteJSON was called on for the current msg
    failed,      \* connections whose WriteJSON failed for the current msg
    ghist        \* the contents of Store.stocks during the current read-all

storeVars == <<stocks, smuW, smuR, nextId>>
reqVars   == <<pc, method, stock, msgType, status, resp, nreq>>
hubVars   == <<clients, hmu, hpc, msg, todo, cur>>
connVars  == <<cpc, broken, closed>>
getVars   == <<gpc, gtodo, stockList, nread>>
reqHist   == <<decoded, body, prior, trace, sent, seen>>
hubHist   == <<published, received, regAt, regReq, snap, attempted, failed>>
vars == <<storeVars, reqVars, hubVars, connVars, getVars, reqHist, hubHist, ghist>>

(* ------------------------------- Init --------------------------------- *)

\* NewStore, NewHub, go hub.run(): empty maps, nobody connected.
Init ==
    /\ stocks = EmptyMap
    /\ smuW = Free
    /\ smuR = {}
    /\ nextId = 1
    /\ pc = [r \in Reqs |-> "idle"]
    /\ method = [r \in Reqs |-> ""]
    /\ stock = [r \in Reqs |-> ZeroStock]
    /\ msgType = [r \in Reqs |-> ""]
    /\ status = [r \in Reqs |-> 0]
    /\ resp = [r \in Reqs |-> ZeroStock]
    /\ nreq = 0
    /\ clients = {}
    /\ hmu = Free
    /\ hpc = "recv"
    /\ msg = NoMsg
    /\ todo = {}
    /\ cur = Free
    /\ cpc = [c \in Conns |-> "new"]
    /\ broken = [c \in Conns |-> FALSE]
    /\ closed = [c \in Conns |-> FALSE]
    /\ gpc = "idle"
    /\ gtodo = {}
    /\ stockList = << >>
    /\ nread = 0
    /\ decoded = [r \in Reqs |-> FALSE]
    /\ body = [r \in Reqs |-> ZeroStock]
    /\ prior = [r \in Reqs |-> NoStock]
    /\ trace = [r \in Reqs |-> << >>]
    /\ sent = [r \in Reqs |-> NoMsg]
    /\ seen = {}
    /\ published = << >>
    /\ received = [c \in Conns |-> << >>]
    /\ regAt = [c \in Conns |-> 0]
    /\ regReq = [c \in Conns |-> 0]
    /\ snap = {}
    /\ attempted = {}
    /\ failed = {}
    /\ ghist = {}

(* ---------------------------- handleStock ----------------------------- *)

\* Ids a client can put in a request body: none, one of its own invention,
\* or one the server has exposed (every key ever stored).
ClientIds == {"", "x"} \cup seen

\* The request bodies that decode into a Stock, with payloads drawn from ps.
Bodies(ps) == {[ID |-> i, Item |-> p[1], Price |-> p[2]] : i \in ClientIds, p \in ps}

\* A handler that does not require an id for PUT and DELETE.
ErrorCodeNoIdCheck(m, decodes, b) ==
    IF ~decodes THEN 400
    ELSE IF m \in {"POST", "PUT", "DELETE"} THEN 0
    ELSE 405

\* A handler that dispatches on the method before it decodes the body.
ErrorCodeMethodFirst(m, decodes, b) ==
    IF m \notin {"POST", "PUT", "DELETE"} THEN 405
    ELSE IF ~decodes THEN 400
    ELSE IF m = "POST" THEN 0
    ELSE IF b.ID = "" THEN 400 ELSE 0

\* Lines 121-124, 138-141, 149-152, 159-162: the status of the http.Error
\* that ends the request before anything is done, or 0 when there is none.
ErrorCode(m, decodes, b) ==
    IF ~decodes THEN 400
    ELSE IF m = "POST" THEN 0
    ELSE IF m \in {"PUT", "DELETE"} THEN (IF b.ID = "" THEN 400 ELSE 0)
    ELSE 405

\* An id generator that returns the same identifier on every call.
StaleUuid == Uuid(1)

\* Line 130: uuid.New().String()
NewUuid == Uuid(nextId)

\* Lines 119-130, 138-141, 149-152, 159-162: a request arrives; its body is
\* decoded, the method is dispatched, the id is checked (PUT, DELETE) or
\* minted (POST).  Nothing shared is touched except the response on error.
\* The clients issue at most max requests, with methods drawn from ms and
\* payloads from ps.
BeginWith(r, ms, ps, max) ==
    /\ pc[r] \in {"idle", "done"}
    /\ nreq < max
    /\ nreq' = nreq + 1
    /\ \E m \in ms, decodes \in BOOLEAN, b \in Bodies(ps) :
        /\ method' = [method EXCEPT ![r] = m]
        /\ decoded' = [decoded EXCEPT ![r] = decodes]
        /\ body' = [body EXCEPT ![r] = IF decodes THEN b ELSE ZeroStock]
        /\ IF ErrorCode(m, decodes, b) # 0
             THEN /\ pc' = [pc EXCEPT ![r] = "done"]
                  /\ status' = [status EXCEPT ![r] = ErrorCode(m, decodes, b)]
                  /\ trace' = [trace EXCEPT ![r] = <<"error">>]
                  /\ stock' = [stock EXCEPT ![r] = IF decodes THEN b ELSE ZeroStock]
                  /\ UNCHANGED nextId
             ELSE /\ pc' = [pc EXCEPT ![r] = "lock"]
                  /\ status' = [status EXCEPT ![r] = 0]
                  /\ trace' = [trace EXCEPT ![r] = << >>]
                  /\ stock' = [stock EXCEPT ![r] =
                                 IF m = "POST" THEN [b EXCEPT !.ID = NewUuid] ELSE b]
                  /\ nextId' = IF m = "POST" THEN nextId + 1 ELSE nextId
    /\ msgType' = [msgType EXCEPT ![r] = ""]
    /\ resp' = [resp EXCEPT ![r] = ZeroStock]
    /\ prior' = [prior EXCEPT ![r] = NoStock]
    /\ sent' = [sent EXCEPT ![r] = NoMsg]
    /\ UNCHANGED <<stocks, smuW, smuR, seen>>
    /\ UNCHANGED <<hubVars, connVars, getVars, hubHist, ghist>>

\* A write lock that does not wait for the readers to leave.
CanLockDespiteReaders == smuW = Free

\* s.mu.Lock() returns only when no reader and no writer holds the lock.
CanLock == smuW = Free /\ smuR = {}

\* An update that refuses an id that is not in the store.
MutateKnownOnly(m, meth, st) ==
    IF meth = "DELETE" THEN MapDelete(m, st.ID)
    ELSE IF meth = "PUT" /\ st.ID \notin DOMAIN m THEN m
    ELSE MapSet(m, st.ID, st)

\* A delete case that repeats the assignment of the update case.
MutateAssignOnly(m, meth, st) == MapSet(m, st.ID, st)

\* A store that files a record under its item name instead of its id.
MutateByItem(m, meth, st) ==
    IF meth = "DELETE" THEN MapDelete(m, st.ID) ELSE MapSet(m, st.Item, st)

\* The statement executed under the write lock, by method.
Mutate(m, meth, st) ==
    IF meth = "DELETE" THEN MapDelete(m, st.ID) ELSE MapSet(m, st.ID, st)

\* Lines 131-132, 142-143, 153-154: s.mu.Lock() and the map statement.
LockAndWrite(r) ==
    /\ pc[r] = "lock"
    /\ CanLock
    /\ smuW' = r
    /\ stocks' = Mutate(stocks, method[r], stock[r])
    /\ prior' = [prior EXCEPT ![r] =
                   IF stock[r].ID \in DOMAIN stocks THEN stocks[stock[r].ID] ELSE NoStock]
    /\ seen' = seen \cup DOMAIN stocks'
    /\ trace' = [trace EXCEPT ![r] = Append(@, "mutate")]
    /\ ghist' = IF gpc = "range" THEN ghist \cup {stocks'} ELSE ghist
    /\ pc' = [pc EXCEPT ![r] = "unlock"]
    /\ UNCHANGED <<smuR, nextId, method, stock, msgType, status, resp, nreq>>
    /\ UNCHANGED <<hubVars, connVars, getVars, decoded, body, sent, hubHist>>

\* A handler that releases s.mu with a deferred Unlock: the lock stays held
\* through the send of line 168.
UnlockDeferred(r) ==
    /\ pc[r] = "unlock"
    /\ msgType' = [msgType EXCEPT ![r] = MsgTypeOf(method[r])]
    /\ pc' = [pc EXCEPT ![r] = "send"]
    /\ trace' = [trace EXCEPT ![r] = Append(@, "unlock")]
    /\ UNCHANGED <<stocks, smuW, smuR, nextId, method, stock, status, resp, nreq>>
    /\ UNCHANGED <<hubVars, connVars, getVars, decoded, body, prior, sent, seen, hubHist, ghist>>

\* Lines 133-134, 144-145, 155-156: s.mu.Unlock(); msgType = ...
Unlock(r) ==
    /\ pc[r] = "unlock"
    /\ smuW' = Free
    /\ msgType' = [msgType EXCEPT ![r] = MsgTypeOf(method[r])]
    /\ pc' = [pc EXCEPT ![r] = "send"]
    /\ trace' = [trace EXCEPT ![r] = Append(@, "unlock")]
    /\ UNCHANGED <<stocks, smuR, nextId, method, stock, status, resp, nreq>>
    /\ UNCHANGED <<hubVars, connVars, getVars, decoded, body, prior, sent, seen, hubHist, ghist>>

\* A channel that accepts a send while Hub.run is busy with a message.
CanSendWhileBusy == TRUE

\* make(chan WebSocketMessage) is unbuffered: a send completes only while
\* Hub.run is blocked in the receive of line 57.
CanSend == hpc = "recv"

\* A message of a DELETE that carries the record the Store held.
MessageOfRemoved(r) ==
    [type |-> msgType[r],
     payload |-> IF method[r] = "DELETE" THEN prior[r] ELSE stock[r]]

\* Lines 164-167: msg := WebSocketMessage{Type: msgType, Payload: stock}.
Message(r) == [type |-> msgType[r], payload |-> stock[r]]

\* Lines 164-168 and line 57: the message is built and handed to Hub.run.
Publish(r) ==
    /\ pc[r] = "send"
    /\ CanSend
    /\ msg' = Message(r)
    /\ hpc' = "lock"
    /\ published' = Append(published, msg')
    /\ sent' = [sent EXCEPT ![r] = msg']
    /\ trace' = [trace EXCEPT ![r] = Append(@, "publish")]
    /\ pc' = [pc EXCEPT ![r] = "respond"]
    /\ UNCHANGED <<storeVars, method, stock, msgType, status, resp, nreq>>
    /\ UNCHANGED <<clients, hmu, todo, cur, connVars, getVars>>
    /\ UNCHANGED <<decoded, body, prior, seen, received, regAt, regReq, snap, attempted, failed, ghist>>

\* A handler that answers a DELETE with the record it removed.
ResponseRemoved(r) == IF method[r] = "DELETE" THEN prior[r] ELSE stock[r]

\* The Stock that line 171 encodes into the response.
Response(r) == stock[r]

\* Lines 170-171: the response is written (status 200).
Respond(r) ==
    /\ pc[r] = "respond"
    /\ status' = [status EXCEPT ![r] = 200]
    /\ resp' = [resp EXCEPT ![r] = Response(r)]
    /\ trace' = [trace EXCEPT ![r] = Append(@, "respond")]
    /\ pc' = [pc EXCEPT ![r] = "done"]
    /\ UNCHANGED <<storeVars, method, stock, msgType, nreq>>
    /\ UNCHANGED <<hubVars, connVars, getVars, decoded, body, prior, sent, seen, hubHist, ghist>>

(* ------------------------------ Hub.run ------------------------------- *)

\* A registry that is read and changed without taking the mutex.
HubNeverWaits == TRUE

\* h.mu.Lock() returns only when nobody holds the mutex.
HubCanLock == hmu = Free

\* Lines 59-60: h.mu.Lock(); the range loop starts over the current map.
HubLock ==
    /\ hpc = "lock"
    /\ HubCanLock
    /\ hmu' = HubProc
    /\ todo' = clients
    /\ snap' = clients
    /\ attempted' = {}
    /\ failed' = {}
    /\ hpc' = "range"
    /\ UNCHANGED <<clients, msg, cur, published, received, regAt, regReq>>
    /\ UNCHANGED <<storeVars, reqVars, connVars, getVars, reqHist, ghist>>

\* Lines 60-61: the range loop produces an entry that is still in the map,
\* in no particular order, and client.WriteJSON(msg) is called on it.
HubNext ==
    /\ hpc = "range"
    /\ \E c \in todo \cap clients :
        /\ cur' = c
        /\ todo' = todo \ {c}
        /\ attempted' = attempted \cup {c}
    /\ hpc' = "write"
    /\ UNCHANGED <<clients, hmu, msg, published, received, regAt, regReq, snap, failed>>
    /\ UNCHANGED <<storeVars, reqVars, connVars, getVars, reqHist, ghist>>

\* WriteJSON returns an error on a connection whose peer is gone or that
\* the server has closed.
WriteFails(c) == broken[c] \/ closed[c]

\* Line 61, err == nil: the message was written to the connection.
HubWriteOk ==
    /\ hpc = "write"
    /\ ~WriteFails(cur)
    /\ received' = [received EXCEPT ![cur] = Append(@, msg)]
    /\ cur' = Free
    /\ hpc' = "range"
    /\ UNCHANGED <<clients, hmu, msg, todo, published, regAt, regReq, snap, attempted, failed>>
    /\ UNCHANGED <<storeVars, reqVars, connVars, getVars, reqHist, ghist>>

\* A loop that stops at the first failed write (a break after the delete).
BreakAfterFailure(t) == {}

\* The entries the range loop still has to produce after a failed write:
\* the loop goes on (there is no break).
AfterFailure(t) == t

\* A removal that leaves the registry as it is.
DeleteNothing(cl, c) == cl

\* A removal that flips the entry: a connection that is absent is put back.
DeleteOrRestore(cl, c) == IF c \in cl THEN cl \ {c} ELSE cl \cup {c}

\* Lines 64 and 89: delete(h.clients, c) removes the entry of c if there is
\* one and does nothing otherwise.
Deleted(cl, c) == cl \ {c}

\* A loop that returns from Hub.run at the first failed write, with h.mu
\* still locked.
HubWriteFailReturn ==
    /\ hpc = "write"
    /\ WriteFails(cur)
    /\ closed' = [closed EXCEPT ![cur] = TRUE]
    /\ clients' = Deleted(clients, cur)
    /\ failed' = failed \cup {cur}
    /\ hpc' = "returned"
    /\ UNCHANGED <<hmu, msg, todo, cur, cpc, broken, published, received, regAt, regReq, snap, attempted>>
    /\ UNCHANGED <<storeVars, reqVars, getVars, reqHist, ghist>>

\* Lines 61-64, err != nil: client.Close(); delete(h.clients, client).
HubWriteFail ==
    /\ hpc = "write"
    /\ WriteFails(cur)
    /\ closed' = [closed EXCEPT ![cur] = TRUE]
    /\ clients' = Deleted(clients, cur)
    /\ failed' = failed \cup {cur}
    /\ todo' = AfterFailure(todo)
    /\ cur' = Free
    /\ hpc' = "range"
    /\ UNCHANGED <<hmu, msg, cpc, broken, published, received, regAt, regReq, snap, attempted>>
    /\ UNCHANGED <<storeVars, reqVars, getVars, reqHist, ghist>>

\* Lines 66-67 and 56: the range loop is over; h.mu.Unlock(); the loop body
\* ends (its variable msg goes out of scope) and the next receive starts.
HubUnlock ==
    /\ hpc = "range"
    /\ todo \cap clients = {}
    /\ hmu' = Free
    /\ todo' = {}
    /\ hpc' = "recv"
    /\ snap' = {}
    /\ attempted' = {}
    /\ failed' = {}
    /\ msg' = NoMsg
    /\ UNCHANGED <<clients, cur, published, received, regAt, regReq>>
    /\ UNCHANGED <<storeVars, reqVars, connVars, getVars, reqHist, ghist>>

(* -------------------------- handleWebSocket --------------------------- *)

\* Lines 76-80: upgrader.Upgrade succeeds (the connection exists from now
\* on) or fails (the handler returns; nothing was registered).
Upgrade(c) ==
    /\ cpc[c] = "new"
    /\ \E ok \in BOOLEAN : cpc' = [cpc EXCEPT ![c] = IF ok THEN "register" ELSE "done"]
    /\ UNCHANGED <<broken, closed>>
    /\ UNCHANGED <<storeVars, reqVars, hubVars, getVars, reqHist, hubHist, ghist>>

\* Lines 82-83: h.mu.Lock(); h.clients[conn] = true.
Register(c) ==
    /\ cpc[c] = "register"
    /\ HubCanLock
    /\ hmu' = c
    /\ clients' = clients \cup {c}
    /\ regAt' = [regAt EXCEPT ![c] = Len(published)]
    /\ regReq' = [regReq EXCEPT ![c] = nreq]
    /\ cpc' = [cpc EXCEPT ![c] = "registered"]
    /\ UNCHANGED <<hpc, msg, todo, cur, broken, closed>>
    /\ UNCHANGED <<published, received, snap, attempted, failed>>
    /\ UNCHANGED <<storeVars, reqVars, getVars, reqHist, ghist>>

\* Line 84: h.mu.Unlock(); the handler enters its read loop.
RegisterUnlock(c) ==
    /\ cpc[c] = "registered"
    /\ hmu' = Free
    /\ cpc' = [cpc EXCEPT ![c] = "read"]
    /\ UNCHANGED <<clients, hpc, msg, todo, cur, broken, closed>>
    /\ UNCHANGED <<storeVars, reqVars, getVars, reqHist, hubHist, ghist>>

\* The peer disconnects or the network fails, at any time after the upgrade.
Break(c) ==
    /\ cpc[c] \notin {"new", "done"}
    /\ ~broken[c]
    /\ broken' = [broken EXCEPT ![c] = TRUE]
    /\ UNCHANGED <<cpc, closed>>
    /\ UNCHANGED <<storeVars, reqVars, hubVars, getVars, reqHist, hubHist, ghist>>

\* Lines 95-99: conn.ReadMessage() returns an error (peer gone, or the
\* connection was closed by Hub.run) and the loop breaks.  A successful
\* read discards the message and changes nothing.
ReadError(c) ==
    /\ cpc[c] = "read"
    /\ broken[c] \/ closed[c]
    /\ cpc' = [cpc EXCEPT ![c] = "unregister"]
    /\ UNCHANGED <<broken, closed>>
    /\ UNCHANGED <<storeVars, reqVars, hubVars, getVars, reqHist, hubHist, ghist>>

\* Lines 88-89 (deferred): h.mu.Lock(); delete(h.clients, conn).
Unregister(c) ==
    /\ cpc[c] = "unregister"
    /\ HubCanLock
    /\ hmu' = c
    /\ clients' = Deleted(clients, c)
    /\ cpc' = [cpc EXCEPT ![c] = "unregistered"]
    /\ UNCHANGED <<hpc, msg, todo, cur, broken, closed>>
    /\ UNCHANGED <<storeVars, reqVars, getVars, reqHist, hubHist, ghist>>

\* Lines 90-92 (deferred): h.mu.Unlock(); conn.Close().
UnregisterUnlock(c) ==
    /\ cpc[c] = "unregistered"
    /\ hmu' = Free
    /\ closed' = [closed EXCEPT ![c] = TRUE]
    /\ cpc' = [cpc EXCEPT ![c] = "done"]
    /\ UNCHANGED <<clients, hpc, msg, todo, cur, broken>>
    /\ UNCHANGED <<storeVars, reqVars, getVars, reqHist, hubHist, ghist>>

(* -------------------------- handleGetStocks --------------------------- *)

\* s.mu.RLock() returns only when no writer holds the lock.  (sync.RWMutex
\* also makes a new reader wait behind a writer that is already waiting;
\* that only removes interleavings and is left out.)
CanRLock == smuW = Free

\* Lines 106-110: s.mu.RLock(); the range loop starts over the map.
GetRLock ==
    /\ gpc \in {"idle", "done"}
    /\ nread < MaxReads
    /\ CanRLock
    /\ nread' = nread + 1
    /\ smuR' = smuR \cup {Getter}
    /\ gtodo' = DOMAIN stocks
    /\ stockList' = << >>
    /\ ghist' = {stocks}
    /\ gpc' = "range"
    /\ UNCHANGED <<stocks, smuW, nextId>>
    /\ UNCHANGED <<reqVars, hubVars, connVars, reqHist, hubHist>>

\* Lines 110-112: the range loop produces an entry that is still in the
\* map, in no particular order, and appends its value to stockList.
GetNext ==
    /\ gpc = "range"
    /\ \E k \in gtodo \cap DOMAIN stocks :
        /\ stockList' = Append(stockList, stocks[k])
        /\ gtodo' = gtodo \ {k}
    /\ UNCHANGED <<gpc, nread, ghist>>
    /\ UNCHANGED <<storeVars, reqVars, hubVars, connVars, reqHist, hubHist>>

\* Lines 114-115 and 107: stockList is encoded into the response and the
\* deferred s.mu.RUnlock() runs.
GetReturn ==
    /\ gpc = "range"
    /\ gtodo \cap DOMAIN stocks = {}
    /\ smuR' = smuR \ {Getter}
    /\ gtodo' = {}
    /\ gpc' = "done"
    /\ UNCHANGED <<stocks, smuW, nextId, stockList, nread, ghist>>
    /\ UNCHANGED <<reqVars, hubVars, connVars, reqHist, hubHist>>

(* --------------------------- specifications --------------------------- *)

\* Spec: the Store under concurrent CRUD requests and a concurrent
\* read-all, with no viewer connected (Hub.run consumes every message and
\* finds an empty registry).
Begin(r) == BeginWith(r, Methods, Payloads, MaxReqs)

Next ==
    \/ \E r \in Reqs : Begin(r)
    \/ \E r \in Reqs : LockAndWrite(r)
    \/ \E r \in Reqs : Unlock(r)
    \/ \E r \in Reqs : Publish(r)
    \/ \E r \in Reqs : Respond(r)
    \/ HubLock
    \/ HubUnlock
    \/ GetRLock
    \/ GetNext
    \/ GetReturn

Spec == Init /\ [][Next]_vars

\* SpecRead: a read-all concurrent with up to MaxMuts CRUD requests of
\* every kind; no viewer connected.
BeginMut(r) == BeginWith(r, Methods, {<<"a", 1>>}, MaxMuts)

NextRead ==
    \/ \E r \in Reqs : BeginMut(r)
    \/ \E r \in Reqs : LockAndWrite(r)
    \/ \E r \in Reqs : Unlock(r)
    \/ \E r \in Reqs : Publish(r)
    \/ \E r \in Reqs : Respond(r)
    \/ HubLock
    \/ HubUnlock
    \/ GetRLock
    \/ GetNext
    \/ GetReturn

SpecRead == Init /\ [][NextRead]_vars

\* SpecHub: the Hub with two viewers that connect, break and disconnect at
\* any time, fed by CREATE requests (each publishes a distinct message).
BeginCreate(r) == BeginWith(r, {"POST"}, {<<"a", 1>>}, MaxEvents)

NextHub ==
    \/ \E r \in HubReqs : BeginCreate(r)
    \/ \E r \in HubReqs : LockAndWrite(r)
    \/ \E r \in HubReqs : Unlock(r)
    \/ \E r \in HubReqs : Publish(r)
    \/ \E r \in HubReqs : Respond(r)
    \/ HubLock
    \/ HubNext
    \/ HubWriteOk
    \/ HubWriteFail
    \/ HubUnlock
    \/ \E c \in Conns : Upgrade(c)
    \/ \E c \in Conns : Register(c)
    \/ \E c \in Conns : RegisterUnlock(c)
    \/ \E c \in Conns : Break(c)
    \/ \E c \in Conns : ReadError(c)
    \/ \E c \in Conns : Unregister(c)
    \/ \E c \in Conns : UnregisterUnlock(c)

SpecHub == Init /\ [][NextHub]_vars

\* SpecSync: concurrent CRUD requests of every kind, the Hub, and one
\* viewer; no read-all.
BeginAny(r) == BeginWith(r, Methods, {<<"a", 1>>}, MaxReqs)

NextSync ==
    \/ \E r \in Reqs : BeginAny(r)
    \/ \E r \in Reqs : LockAndWrite(r)
    \/ \E r \in Reqs : Unlock(r)
    \/ \E r \in Reqs : Publish(r)
    \/ \E r \in Reqs : Respond(r)
    \/ HubLock
    \/ HubNext
    \/ HubWriteOk
    \/ HubWriteFail
    \/ HubUnlock
    \/ \E c \in SyncConns : Upgrade(c)
    \/ \E c \in SyncConns : Register(c)
    \/ \E c \in SyncConns : RegisterUnlock(c)
    \/ \E c \in SyncConns : Break(c)
    \/ \E c \in SyncConns : ReadError(c)
    \/ \E c \in SyncConns : Unregister(c)
    \/ \E c \in SyncConns : UnregisterUnlock(c)

SpecSync == Init /\ [][NextSync]_vars

\* SpecSyncFair: SpecSync under the scheduling the Go runtime provides.  A
\* goroutine that can take a step takes it.  A goroutine blocked in Lock is
\* handed the mutex once it has waited long enough (sync.Mutex starvation
\* mode) and a goroutine blocked in a channel send is queued first-in
\* first-out; the requests and connections of the model are finitely many
\* and each takes finitely many steps, so a lock or a hand-off that is
\* wanted is in the end available for good, and weak fairness is enough.
\* A write to a subscriber eventually returns, with or without an error.
\* Nothing is required of the arrival of requests or of the peers'
\* disconnections.
Fairness ==
    /\ \A r \in Reqs : WF_vars(LockAndWrite(r))
    /\ \A r \in Reqs : WF_vars(Unlock(r))
    /\ \A r \in Reqs : WF_vars(Publish(r))
    /\ \A r \in Reqs : WF_vars(Respond(r))
    /\ WF_vars(HubLock)
    /\ WF_vars(HubNext)
    /\ WF_vars(HubWriteOk)
    /\ WF_vars(HubWriteFail)
    /\ WF_vars(HubUnlock)
    /\ \A c \in SyncConns : WF_vars(Upgrade(c))
    /\ \A c \in SyncConns : WF_vars(Register(c))
    /\ \A c \in SyncConns : WF_vars(RegisterUnlock(c))
    /\ \A c \in SyncConns : WF_vars(ReadError(c))
    /\ \A c \in SyncConns : WF_vars(Unregister(c))
    /\ \A c \in SyncConns : WF_vars(UnregisterUnlock(c))

SpecSyncFair == Init /\ [][NextSync]_vars /\ Fairness

(* ------------------------------- claims -------------------------------- *)

\* The messages published so far whose processing by Hub.run is complete
\* for connection c: all of them, except the current one while Hub.run has
\* not yet written it to c.
DueTo(c) ==
    IF hpc = "recv" \/ (c \in attempted /\ cur # c)
      THEN published
      ELSE SubSeq(published, 1, Len(published) - 1)

\* C1: a subscriber that was registered before the first message was
\* published and is still registered has been written every published
\* message, once each and in the order of publication (up to the message
\* Hub.run is processing, which it has or has not yet written to it).
C1_InOrderToAll ==
    \A c \in clients : regAt[c] = 0 => received[c] = DueTo(c)

\* C1 witness: three pairwise distinct messages were published, and two
\* subscribers registered before the first one have been written all three.
C1_Witness ==
    /\ hpc = "recv"
    /\ Len(published) = 3
    /\ published[1] # published[2]
    /\ published[2] # published[3]
    /\ published[1] # published[3]
    /\ clients = Conns
    /\ \A c \in Conns : regAt[c] = 0 /\ received[c] = published

\* C2: after a write to a subscriber fails, that subscriber is out of the
\* registry and its connection is closed while the same message is still
\* being processed; and when the loop over the registry ends, WriteJSON was
\* called for this message on every subscriber registered when the loop
\* started, and each of them whose write did not fail was written it and is
\* still registered.
C2_FailureIsLocal ==
    /\ \A c \in failed : c \notin clients /\ closed[c] /\ hmu = HubProc
    /\ (hpc = "range" /\ todo \cap clients = {}) =>
          /\ attempted = snap
          /\ clients = snap \ failed
          /\ \A c \in snap \ failed :
                Len(received[c]) > 0 /\ received[c][Len(received[c])] = msg

\* C2 witness: the loop over the registry has ended for the second (or a
\* later) message; one subscriber's write failed and another was written it.
C2_Witness ==
    /\ hpc = "range"
    /\ todo = {}
    /\ Len(published) >= 2
    /\ failed # {}
    /\ snap \ failed # {}
    /\ \A c \in snap \ failed : received[c] = published

\* The kind of change each verb of the CRUD endpoint stands for
\* (src/main.go: case "POST": // CREATE, and so on).
KindOfVerb(m) ==
    CASE m = "POST" -> "CREATE"
      [] m = "PUT" -> "UPDATE"
      [] m = "DELETE" -> "DELETE"
      [] OTHER -> ""

\* The steps of a request that passes validation, in order.
FullTrace == <<"mutate", "unlock", "publish", "respond">>

\* The request in slot r fails validation.
InvalidRequest(r) ==
    \/ ~decoded[r]
    \/ method[r] \in {"PUT", "DELETE"} /\ body[r].ID = ""
    \/ method[r] \notin {"POST", "PUT", "DELETE"}

\* C3: a request that passes validation performs its steps in the order
\* store mutation, release of the store lock, hand-off of the message to
\* the Hub, response; once it has responded it has done each exactly once,
\* the one message it handed over is among the published ones, its type is
\* the kind of the request's verb and its payload is the item returned.
C3_MutatePublishRespond ==
    \A r \in Reqs :
        /\ trace[r] # <<"error">> =>
              /\ Len(trace[r]) <= Len(FullTrace)
              /\ trace[r] = SubSeq(FullTrace, 1, Len(trace[r]))
        /\ (pc[r] # "idle" /\ ~InvalidRequest(r)) =>
              /\ trace[r] # <<"error">>
              /\ pc[r] = "done" =>
                    /\ status[r] = 200
                    /\ trace[r] = FullTrace
                    /\ sent[r] = [type |-> KindOfVerb(method[r]), payload |-> resp[r]]
                    /\ \E i \in 1..Len(published) : published[i] = sent[r]

\* C3 witness: a CREATE and a DELETE have both completed with status 200.
C3_Witness ==
    /\ pc["r1"] = "done" /\ status["r1"] = 200 /\ method["r1"] = "POST"
    /\ pc["r2"] = "done" /\ status["r2"] = 200 /\ method["r2"] = "DELETE"
    /\ trace["r2"] = FullTrace

\* C5: a request that fails validation (undecodable body, PUT or DELETE
\* with an empty id, unsupported verb) has ended with status 400 or 405
\* without performing a store mutation and without handing a message to
\* the Hub.
C5_RejectedHasNoEffect ==
    \A r \in Reqs :
        (pc[r] # "idle" /\ InvalidRequest(r)) =>
            /\ pc[r] = "done"
            /\ status[r] \in {400, 405}
            /\ trace[r] = <<"error">>
            /\ sent[r] = NoMsg
            /\ prior[r] = NoStock

\* C5 witness: one request was rejected for an empty id and another for an
\* undecodable body; the store is empty and nothing was published.
C5_Witness ==
    /\ pc["r1"] = "done" /\ decoded["r1"] /\ method["r1"] = "PUT"
    /\ body["r1"].ID = "" /\ status["r1"] = 400
    /\ pc["r2"] = "done" /\ ~decoded["r2"] /\ status["r2"] = 400
    /\ stocks = EmptyMap
    /\ published = << >>

\* The request in slot r is a CREATE that passed validation.
IsCreate(r) == pc[r] # "idle" /\ decoded[r] /\ method[r] = "POST"

\* C6: the id of a CREATE is non-empty; until the CREATE stores its record
\* the id is no key of the store and was never one; the CREATE overwrites
\* no record; two CREATEs have different ids; the id returned is the id
\* stored; and a read-all whose result is the current content of the store,
\* taken while the record of a completed CREATE is still as returned,
\* contains that record exactly once.
C6_FreshId ==
    \A r \in Reqs : IsCreate(r) =>
        /\ stock[r].ID # ""
        /\ pc[r] = "lock" => stock[r].ID \notin seen \cup DOMAIN stocks
        /\ pc[r] # "lock" => prior[r] = NoStock /\ stock[r].ID \in seen
        /\ pc[r] = "unlock" => stocks[stock[r].ID] = stock[r]
        /\ \A q \in Reqs \ {r} : IsCreate(q) => stock[q].ID # stock[r].ID
        /\ pc[r] = "done" =>
              /\ resp[r] = stock[r]
              /\ (/\ gpc = "done"
                  /\ stocks \in ghist
                  /\ resp[r].ID \in DOMAIN stocks
                  /\ stocks[resp[r].ID] = resp[r])
                 => /\ \E i \in 1..Len(stockList) : stockList[i] = resp[r]
                    /\ Cardinality({i \in 1..Len(stockList) :
                                      stockList[i].ID = resp[r].ID}) = 1

\* C6 witness: two CREATEs have completed with different ids and a read-all
\* has returned both records.
C6_Witness ==
    /\ \A r \in Reqs : IsCreate(r) /\ pc[r] = "done" /\ status[r] = 200
    /\ resp["r1"].ID # resp["r2"].ID
    /\ gpc = "done"
    /\ Len(stockList) = 2
    /\ stocks \in ghist

\* Request r performs its store mutation in this step.
MutationStep(r) == pc[r] = "lock" /\ pc'[r] = "unlock"

\* Every record under a key other than k is the same before and after.
OthersUnchanged(k) ==
    /\ (DOMAIN stocks') \ {k} = (DOMAIN stocks) \ {k}
    /\ \A j \in (DOMAIN stocks) \ {k} : stocks'[j] = stocks[j]

\* C7: the store mutation of an UPDATE leaves, under the id of the request,
\* the record the request carried, whether or not a record was there
\* before, and leaves every record under another id as it was.
C7_Upsert ==
    [][\A r \in Reqs : (MutationStep(r) /\ method[r] = "PUT") =>
          /\ body[r].ID \in DOMAIN stocks'
          /\ stocks'[body[r].ID] = body[r]
          /\ OthersUnchanged(body[r].ID)]_vars

\* C7 witness: an UPDATE has inserted a record under an id that was absent,
\* and a second UPDATE has just overwritten that record with other fields.
C7_Witness ==
    /\ method["r1"] = "PUT" /\ pc["r1"] = "done" /\ prior["r1"] = NoStock
    /\ method["r2"] = "PUT" /\ pc["r2"] = "unlock"
    /\ prior["r2"] = body["r1"]
    /\ body["r2"].ID = body["r1"].ID
    /\ body["r2"] # body["r1"]
    /\ stocks[body["r2"].ID] = body["r2"]

\* C8: the store mutation of a DELETE whose id is absent leaves the store
\* as it was, and that of a DELETE whose id is present removes the record
\* under that id and no other; and a DELETE with a non-empty id that has
\* ended has ended with status 200.
C8_DeleteFrame ==
    [][/\ \A r \in Reqs : (MutationStep(r) /\ method[r] = "DELETE") =>
            /\ body[r].ID \notin DOMAIN stocks'
            /\ OthersUnchanged(body[r].ID)
            /\ body[r].ID \notin DOMAIN stocks =>
                  /\ stocks' = stocks
                  /\ Cardinality(DOMAIN stocks') = Cardinality(DOMAIN stocks)
            /\ body[r].ID \in DOMAIN stocks =>
                  Cardinality(DOMAIN stocks') = Cardinality(DOMAIN stocks) - 1
       /\ \A r \in Reqs :
            (pc'[r] = "done" /\ method'[r] = "DELETE" /\ ~InvalidRequest(r)')
               => status'[r] = 200]_vars

\* C8 witness: a DELETE of an id that was absent has completed with status
\* 200 while the store holds a record (under another id).
C8_Witness ==
    \E r \in Reqs :
        /\ method[r] = "DELETE" /\ pc[r] = "done" /\ status[r] = 200
        /\ prior[r] = NoStock
        /\ Cardinality(DOMAIN stocks) = 1

\* The request in slot r is a DELETE that has completed with status 200.
DeleteDone(r) == pc[r] = "done" /\ method[r] = "DELETE" /\ status[r] = 200

Apply(v, e) ==
    IF e.type = "DELETE" THEN MapDelete(v, e.payload.ID)
    ELSE MapSet(v, e.payload.ID, e.payload)

\* The records of a viewer that started empty and applied es in order.
RECURSIVE View(_)
View(es) ==
    IF es = << >> THEN EmptyMap
    ELSE Apply(View(SubSeq(es, 1, Len(es) - 1)), es[Len(es)])

\* No request is in flight and Hub.run has processed every message.
Quiescent == hpc = "recv" /\ \A r \in Reqs : pc[r] \in {"idle", "done"}

\* C4 as stated: when no request is in flight and every published message
\* has been processed, a subscriber that was registered before the first
\* request and is still registered (no write to it failed) holds, after
\* applying the messages written to it in order, the records of the store.
C4_ViewerInSync ==
    Quiescent =>
        \A c \in clients :
            (regReq[c] = 0 /\ regAt[c] = 0) =>
                Values(View(received[c])) = Values(stocks)

\* The items of a list, as a set.
Items(l) == {l[i] : i \in 1..Len(l)}

\* C10: the result of a read-all lists, once each, the records the store
\* held at one moment between the read-all's lock and its return, and
\* while the list is built it holds only records of one such moment; a
\* mutation that follows does not alter it.
C10_Snapshot ==
    /\ gpc = "range" => \E s \in ghist : Items(stockList) \subseteq Values(s)
    /\ gpc = "done" =>
          \E s \in ghist :
              /\ Items(stockList) = Values(s)
              /\ Len(stockList) = Cardinality(DOMAIN s)

\* C10 witness: a read-all returned two records while requests were being
\* issued, and the store has since been changed by a later mutation.
C10_Witness ==
    /\ gpc = "done"
    /\ Len(stockList) = 2
    /\ Values(stocks) # Items(stockList)
    /\ nreq = 3

\* The request in slot r has a verb other than create, update and delete.
OtherVerb(r) == pc[r] # "idle" /\ method[r] \notin {"POST", "PUT", "DELETE"}

\* C11 as stated: a request whose verb is not create, update or delete has
\* ended with status 405, whatever its body.
C11_OtherVerbIs405 ==
    \A r \in Reqs : OtherVerb(r) => pc[r] = "done" /\ status[r] = 405

\* C11 as amended: a request whose verb is not create, update or delete has
\* ended with status 405 when its body decoded, whatever the Stock decoded,
\* and with status 400 when its body did not decode (the body is decoded
\* before the verb is looked at); it did nothing else.
C11_OtherVerbAfterDecode ==
    \A r \in Reqs : OtherVerb(r) =>
        /\ pc[r] = "done"
        /\ status[r] = IF decoded[r] THEN 405 ELSE 400
        /\ trace[r] = <<"error">>

\* C11 witness: a request with another verb and a body that carries an id
\* ended with 405, and one whose body did not decode ended with 400.
C11_Witness ==
    /\ OtherVerb("r1") /\ decoded["r1"] /\ body["r1"].ID = "x" /\ status["r1"] = 405
    /\ OtherVerb("r2") /\ ~decoded["r2"] /\ status["r2"] = 400

\* The identifiers uuid.New() has returned so far.
Minted == {Uuid(i) : i \in 1..(nextId - 1)}

\* C12 as stated: every key of the store, and the id of every record in it,
\* is an identifier the server minted.
C12_OnlyMintedIds ==
    \A k \in DOMAIN stocks : k \in Minted /\ stocks[k].ID \in Minted

\* C12 as amended: a key enters the store only through the mutation of a
\* CREATE, under the identifier the server minted for it, or through the
\* mutation of an UPDATE, under the non-empty id the client sent; no other
\* step adds a key.
C12_MintedOrUpserted ==
    [][\A k \in (DOMAIN stocks') \ (DOMAIN stocks) :
          /\ k # ""
          /\ \E r \in Reqs :
                /\ MutationStep(r)
                /\ \/ method[r] = "POST" /\ k = stock[r].ID /\ k \in Minted
                   \/ method[r] = "PUT" /\ k = body[r].ID]_vars

\* C12 witness: the store holds a record under a minted id and a record
\* under an id a client chose.
C12_Witness ==
    /\ "x" \in DOMAIN stocks
    /\ "x" \notin Minted
    /\ \E k \in DOMAIN stocks : k \in Minted

\* Hub.run is processing a message: it is inside the loop over the registry.
Processing == hpc \in {"range", "write"}

\* C13: while Hub.run processes a message the registry is the one it found
\* when it started, less the subscribers whose write failed; every call of
\* WriteJSON for the message is on a subscriber of that registry on which
\* it was not yet called, and when the loop ends it has been called on each
\* of them; a connection is written a message only by that call and never
\* a message it was already written; so a subscriber that registers later
\* is not written the message.
C13_RegistryFixedPerMessage ==
    [][/\ Processing' =>
            /\ clients' = snap' \ failed'
            /\ attempted' \subseteq snap'
            /\ todo' = snap' \ attempted'
       /\ (Processing /\ Processing') => snap' = snap /\ msg' = msg
       /\ (hpc = "range" /\ hpc' = "write") =>
            cur' \in snap /\ cur' \notin attempted
       /\ (hpc = "range" /\ hpc' = "recv") => attempted = snap
       /\ \A c \in Conns : received'[c] # received[c] =>
            /\ hpc = "write" /\ c = cur /\ c \in snap
            /\ received'[c] = Append(received[c], msg)
            /\ \A i \in 1..Len(received[c]) : received[c][i] # msg]_vars

\* C13 witness: a subscriber that registered after the first message was
\* processed has been written the second message only, while one registered
\* from the start has been written both.
C13_Witness ==
    /\ hpc = "recv"
    /\ Len(published) = 2
    /\ clients = Conns
    /\ regAt["c1"] = 0 /\ received["c1"] = published
    /\ regAt["c2"] = 1 /\ received["c2"] = <<published[2]>>

\* C14 as stated: while Hub.run stays inside a write to a subscriber, no
\* request completes its hand-off to the Hub, no request returns its
\* response, and no connection is written a message.
C14_NothingMovesDuringWrite ==
    [][(hpc = "write" /\ hpc' = "write") =>
          /\ published' = published
          /\ received' = received
          /\ \A r \in Reqs : pc[r] = "send" => pc'[r] = "send"
          /\ \A r \in Reqs : pc'[r] = "done" /\ status'[r] = 200 =>
                pc[r] = "done" /\ status[r] = 200]_vars

\* C14 as amended: from a state where Hub.run is inside a write to a
\* subscriber, no request completes its hand-off to the Hub (a request that
\* has reached the send stays there, without a response), and the only
\* message written to a connection is the current one, to that subscriber,
\* by the step that ends the write.
C14_SendersWaitDuringWrite ==
    [][hpc = "write" =>
          /\ published' = published
          /\ \A r \in Reqs : pc[r] = "send" =>
                pc'[r] = "send" /\ status'[r] = 0 /\ sent'[r] = NoMsg
          /\ \A c \in Conns : received'[c] # received[c] =>
                /\ hpc' # "write"
                /\ c = cur
                /\ received'[c] = Append(received[c], msg)]_vars

\* C14 witness: Hub.run is inside a write of the first message; the request
\* that published it has returned its response, and another request is
\* waiting in its send.
C14_Witness ==
    /\ hpc = "write"
    /\ Len(published) = 1
    /\ \E r \in Reqs : pc[r] = "done" /\ status[r] = 200 /\ sent[r] = msg
    /\ \E r \in Reqs : pc[r] = "send"

\* The processes that hold the Store lock (as writer or as reader) and the
\* process that holds the Hub registry lock.
StoreHolders == (IF smuW = Free THEN {} ELSE {smuW}) \cup smuR
HubHolders == IF hmu = Free THEN {} ELSE {hmu}

\* C15: no process holds the Store lock and the Hub registry lock at the same
\* time, and a process that holds the Store lock is not waiting for a lock
\* or for the hand-off to the Hub: a request holds it only between its
\* mutation and its unlock, and only requests and readers ever hold it.
C15_LocksNeverNested ==
    /\ StoreHolders \cap HubHolders = {}
    /\ StoreHolders \subseteq Reqs \cup {Getter}
    /\ HubHolders \subseteq {HubProc} \cup Conns
    /\ \A r \in Reqs : smuW = r <=> pc[r] = "unlock"
    /\ \A r \in Reqs : pc[r] \in {"lock", "send"} => r \notin StoreHolders
    /\ hmu = HubProc <=> hpc \in {"range", "write"}
    /\ \A c \in Conns : hmu = c <=> cpc[c] \in {"registered", "unregistered"}
    /\ \A c \in Conns : cpc[c] \in {"register", "unregister"} => c \notin HubHolders

\* C15 witness: a request holds the Store lock while Hub.run holds the
\* registry lock inside a write of the other request's message, and a
\* connection waits for the registry lock.
C15_Witness ==
    /\ smuW = "r2"
    /\ hmu = HubProc /\ hpc = "write"
    /\ sent["r1"] = msg
    /\ cpc["c1"] = "unregister"

\* C16: under the fairness of SpecSyncFair, every request that passed
\* validation eventually hands its message to Hub.run and returns its
\* response with status 200, Hub.run eventually finishes every message it
\* received and is back at its receive, and every registration and every
\* unregistration eventually completes.
C16_EveryoneCompletes ==
    /\ \A r \in Reqs :
          (pc[r] \in {"lock", "unlock", "send"}) ~> (pc[r] = "respond" /\ sent[r] \in Values(published))
    /\ \A r \in Reqs :
          (pc[r] \in {"lock", "unlock", "send", "respond"}) ~> (pc[r] = "done" /\ status[r] = 200)
    /\ (hpc # "recv") ~> (hpc = "recv" /\ msg = NoMsg)
    /\ \A c \in SyncConns : (cpc[c] = "register") ~> (cpc[c] = "read")
    /\ \A c \in SyncConns : (cpc[c] = "unregister") ~> (cpc[c] = "done" /\ c \notin clients)

\* C16 witness: two requests have returned their responses, Hub.run has
\* processed both messages and waits for the next, and a subscriber that
\* registered, was written both messages and then disconnected has
\* completed its unregistration.
C16_Witness ==
    /\ \A r \in Reqs : pc[r] = "done" /\ status[r] = 200
    /\ hpc = "recv" /\ Len(published) = 2
    /\ cpc["c1"] = "done" /\ regAt["c1"] = 0 /\ Len(received["c1"]) = 2
    /\ "c1" \notin clients

\* The two removals of a connection from the registry: by its handler
\* (line 89) and by Hub.run after a failed write (line 64).
HandlerRemoves(c) == cpc[c] = "unregister" /\ cpc'[c] = "unregistered"
HubRemoves(c) == hpc = "write" /\ cur = c /\ closed'[c] /\ ~closed[c]

\* A connection that has been registered and is no longer in the registry.
Removed(c) == c \notin clients /\ cpc[c] \notin {"new", "register"}

\* C17: a removal takes exactly its own connection out of the registry and
\* changes nothing when that connection is already out (removed before by
\* Hub.run after a failed write, or by the handler); a connection leaves
\* the registry only by one of the two removals, enters it only by its
\* registration, and once removed never enters it again.
C17_RemovalIdempotent ==
    [][\A c \in Conns :
          /\ (HandlerRemoves(c) \/ HubRemoves(c)) =>
                /\ clients' = clients \ {c}
                /\ c \notin clients => clients' = clients
          /\ (c \in clients /\ c \notin clients') => (HandlerRemoves(c) \/ HubRemoves(c))
          /\ (c \notin clients /\ c \in clients') => cpc[c] = "register"
          /\ Removed(c) => Removed(c)']_vars

\* C17 witness: Hub.run removed and closed a connection after a failed
\* write, the handler of that connection has then performed its own
\* removal, and the other connection is still in the registry.
C17_Witness ==
    /\ cpc["c1"] = "unregistered" /\ closed["c1"]
    /\ clients = {"c2"}

\* C18: the record stored under key k has id k, so no two records of the
\* Store share an id, and no two items of the list a read-all has built
\* share an id.
C18_KeyIsId ==
    /\ \A k \in DOMAIN stocks : stocks[k].ID = k
    /\ \A j, k \in DOMAIN stocks : stocks[j].ID = stocks[k].ID => j = k
    /\ \A i, j \in 1..Len(stockList) : stockList[i].ID = stockList[j].ID => i = j

\* C18 witness: after a create, an update of a client-chosen id and a delete the
\* Store holds two records, and a read-all has returned both.
C18_Witness ==
    /\ Cardinality(DOMAIN stocks) = 2
    /\ "x" \in DOMAIN stocks
    /\ \E k \in DOMAIN stocks : k \in Minted
    /\ gpc = "done" /\ Len(stockList) = 2
    /\ \E r \in Reqs : method[r] = "DELETE" /\ pc[r] = "done" /\ status[r] = 200

\* A DELETE request with a non-empty id that was absent from the Store when
\* the request ran its delete, and that has passed its send.
DeleteOfAbsent(r) ==
    /\ decoded[r] /\ method[r] = "DELETE" /\ body[r].ID # ""
    /\ pc[r] \in {"respond", "done"}
    /\ prior[r] = NoStock

\* C19: a DELETE request with a non-empty id that is absent from the Store
\* hands Hub.run a DELETE message whose payload is the request body, id and
\* other fields alike; a subscriber registered from the start and still
\* registered has been written that message once Hub.run is through with
\* it for that subscriber.
C19_DeleteOfAbsentIsBroadcast ==
    \A r \in Reqs : DeleteOfAbsent(r) =>
        /\ sent[r] = [type |-> "DELETE", payload |-> body[r]]
        /\ \E i \in 1..Len(published) : published[i] = sent[r]
        /\ \A c \in clients : \A i \in 1..Len(DueTo(c)) :
              (regAt[c] = 0 /\ published[i] = sent[r]) =>
                  (i <= Len(received[c]) /\ received[c][i] = sent[r])

\* C19 witness: a DELETE of an id that was never in the Store has returned
\* its response, and the registered subscriber has been written a DELETE
\* message with the request body.
C19_Witness ==
    \E r \in Reqs :
        /\ DeleteOfAbsent(r) /\ pc[r] = "done"
        /\ body[r].ID = "x" /\ "x" \notin seen
        /\ hpc = "recv"
        /\ "c1" \in clients /\ regAt["c1"] = 0
        /\ \E i \in 1..Len(received["c1"]) :
              received["c1"][i] = [type |-> "DELETE", payload |-> body[r]]

\* The state part of C20: a closed connection is not in the registry, and
\* while Hub.run is inside a write it holds the registry lock and the
\* connection it writes to is registered and not closed.
ClosedIsOut ==
    /\ \A c \in Conns : closed[c] => c \notin clients
    /\ hpc = "write" => (hmu = HubProc /\ cur \in clients /\ ~closed[cur])

\* C20: a connection is written a message only by a write step of Hub.run,
\* to a connection that is registered and not closed; a connection closed
\* by Hub.run (failed write) or by its handler (disconnect) is out of the
\* registry from then on, so no later message is attempted on it.
C20_NoWriteAfterClose ==
    [][/\ ClosedIsOut /\ ClosedIsOut'
       /\ \A c \in Conns :
             /\ received'[c] # received[c] =>
                   (hpc = "write" /\ cur = c /\ hmu = HubProc /\ ~closed[c] /\ c \in clients)
             /\ closed[c] => (closed'[c] /\ received'[c] = received[c])
             /\ (closed[c] /\ hpc' = "write") => cur' # c]_vars

\* C20 witness: one connection was closed by Hub.run after a failed write
\* of the second message (its handler has not yet noticed), the other was
\* closed by its handler after two messages, and a third message has been
\* processed since with neither of them in the registry.
C20_Witness ==
    /\ hpc = "recv" /\ Len(published) = 3
    /\ clients = {}
    /\ closed["c1"] /\ cpc["c1"] = "read" /\ Len(received["c1"]) = 1
    /\ closed["c2"] /\ cpc["c2"] = "done" /\ Len(received["c2"]) = 2

=============================================================================
